---- MODULE Spec2Model ----
(***************************************************************************)
(* Model of the xgConsole build driver of octobuild                        *)
(* (src/src/bin/xgConsole.rs): main, execute, validate_graph, the worker   *)
(* pool of create_threads and the scheduler of execute_graph /             *)
(* execute_until_failed.                                                   *)
(*                                                                         *)
(* Modelling decisions                                                     *)
(*  - A graph is a node count n (NodeIndex 0..n-1) and the sequence of its *)
(*    edges in the order they were added; petgraph keeps parallel edges    *)
(*    and self loops, and walks a node's edges newest first.               *)
(*  - Vec<bool> completed is the set of indices whose entry is true.       *)
(*  - The two mpsc channels are FIFO sequences; tx_open is FALSE once the  *)
(*    only Sender<TaskMessage> has been dropped.                           *)
(*  - A BuildTask is identified with its node; a task's result is fixed    *)
(*    the first time the task runs (outcome) and is the same when the      *)
(*    task runs again.                                                     *)
(*  - ResultMessage.worker and the task payload only feed the progress     *)
(*    line; writes to stdout/stderr are taken to succeed.                  *)
(*  - A panic of the main thread ends the process (pc = "panicked").       *)
(***************************************************************************)
EXTENDS Integers, Sequences, FiniteSets, TLC

\* ------------------------------------------------------------------ bounds
MaxNodes == 3
MaxEdges == 2
MaxWorkers == 2

\* ---------------------------------------------------------------- helpers
Range(s) == { s[i] : i \in DOMAIN s }

Occurrences(s, x) == Cardinality({ i \in DOMAIN s : s[i] = x })

\* ----------------------------------------------------------------- values
\* Option<i32> / Result<Option<i32>, Error> as returned by execute.
NoReturn == <<"none">>
OkSome(c) == <<"Ok", "Some", c>>
OkNone == <<"Ok", "None">>
Err(e) == <<"Err", e>>

\* Result<OutputInfo, Error> of one task: the process exited with a code,
\* was ended by a signal (status None), or could not be run at all.
Exited(c) == <<"Ok", "Some", c>>
Signalled == <<"Ok", "None">>
Failure == <<"Err", "Task">>

ExitStatuses == {0, 2, 3}
TaskResults == { Exited(c) : c \in ExitStatuses } \cup {Signalled, Failure}
Unset == <<"unset">>

is_err(r) == r[1] = "Err"
status(r) == IF r[2] = "Some" THEN OkSome(r[3]) ELSE OkNone
success(r) == r = Exited(0)

\* ------------------------------------------------------------------ graph
Nodes(g) == 0 .. (g.n - 1)

EdgeSeqs(k) == UNION { [1..m -> (0..(k-1)) \X (0..(k-1))] : m \in 0..MaxEdges }

Graphs == UNION { { [n |-> k, edges |-> es] : es \in EdgeSeqs(k) } : k \in 0..MaxNodes }

\* graph.neighbors_directed(a, dir): one entry per edge of a in that
\* direction, the most recently added edge first.
neighbors_directed(g, a, dir) ==
  LET R[i \in 0..Len(g.edges)] ==
        IF i = 0 THEN <<>>
        ELSE LET e == g.edges[i]
             IN  (IF dir = "Outgoing" /\ e[1] = a THEN <<e[2]>>
                  ELSE IF dir = "Incoming" /\ e[2] = a THEN <<e[1]>>
                  ELSE <<>>) \o R[i-1]
  IN  R[Len(g.edges)]

\* graph.externals(dir): the nodes without an edge in that direction, in
\* index order.
externals(g, dir) ==
  LET F[i \in 0..g.n] ==
        IF i = 0 THEN <<>>
        ELSE F[i-1] \o (IF neighbors_directed(g, i-1, dir) = <<>> THEN <<i-1>> ELSE <<>>)
  IN  F[g.n]

initial_nodes_incoming(g) == externals(g, "Incoming")

\* The nodes execute_until_failed sends before it reads any result.
initial_nodes(g) == externals(g, "Outgoing")

is_ready_first(g, completed, source) ==
  LET out == neighbors_directed(g, source, "Outgoing")
  IN  out = <<>> \/ out[1] \in completed

is_ready(g, completed, source) ==
  \A i \in DOMAIN neighbors_directed(g, source, "Outgoing") :
     neighbors_directed(g, source, "Outgoing")[i] \in completed

RECURSIVE Sweep(_, _, _, _, _)
Sweep(g, completed, queue, i, count) ==
  IF i > Len(queue) THEN FALSE
  ELSE LET index == queue[i]
       IN  IF index \notin completed /\ is_ready(g, completed, index)
           THEN IF count + 1 = g.n THEN TRUE
                ELSE Sweep(g, completed \cup {index},
                           queue \o neighbors_directed(g, index, "Incoming"),
                           i + 1, count + 1)
           ELSE Sweep(g, completed, queue, i + 1, count)

validate_graph_lax(g) == \A a \in Nodes(g) : <<a, a>> \notin Range(g.edges)

\* TRUE for Ok(graph), FALSE for Err("Found cycles in build dependencies").
validate_graph(g) == Sweep(g, {}, [k \in 1..g.n |-> k - 1], 1, 0)

\* ------------------------------------------------------------- arguments
WordChars == {"W", "a", "_", "1"}

is_flag_unanchored(arg) == Len(arg) >= 2 /\ arg[1] = "/" /\ arg[2] \in WordChars

\* The regular expression ^/\w+([=].*)?$ ('.' does not match a line feed).
is_flag(arg) ==
  /\ Len(arg) >= 2
  /\ arg[1] = "/"
  /\ \E k \in 3..(Len(arg) + 1) :
        /\ \A j \in 2..(k-1) : arg[j] \in WordChars
        /\ \/ k = Len(arg) + 1
           \/ /\ arg[k] = "="
              /\ \A j \in (k+1)..Len(arg) : arg[j] # "\n"

files_of(a) == SelectSeq(a, LAMBDA x : ~is_flag(x))

\* Command lines (argv[1..]) the runs start from: flags only, or a flag and
\* a manifest file.
ArgSamples == { << <<"/", "W">> >>,
                << <<"/", "W">>, <<"a", ".", "x">> >> }

exit_code_swapped(r) ==
  IF r[1] = "Ok" THEN (IF r[2] = "Some" THEN r[3] ELSE 500) ELSE 501

\* The match of main on the value of execute.
exit_code(r) ==
  IF r[1] = "Ok" THEN (IF r[2] = "Some" THEN r[3] ELSE 501) ELSE 500

\* ------------------------------------------------------------------ state
VARIABLES
  args,           \* argv[1..]
  graph,          \* the graph the manifest files parse to
  process_limit,  \* config.process_limit
  pc,             \* position of the main thread
  ret,            \* value returned by execute_until_failed / execute
  exit_status,    \* argument of process::exit, -1 before
  completed,      \* execute_until_failed: completed
  count,          \* execute_graph: count
  todo,           \* nodes the running for loop of the scheduler still sends
  tasks,          \* channel of TaskMessage (the intake)
  tx_open,        \* tx_task not yet dropped
  mutex,          \* holder of mutex_rx_task: a worker id or Free
  wpc,            \* position of each worker thread
  wtask,          \* the task each worker executes
  results,        \* channel of ResultMessage
  outcome,        \* result of each task that has run
  sent,           \* history: nodes sent to the intake, in order
  started,        \* history: nodes taken from the intake by workers, in order
  received,       \* history: number of results the scheduler received per node
  first_failed,   \* history: the first failed result the scheduler received
  dropped,        \* history: nodes removed from the intake by the cleanup
  op_in,          \* the arguments of a call of one of the pure functions
  op_out,         \* its result, Pending before the call
  cache,          \* the fingerprints the cache of VsCompiler holds
  compiles,       \* history: the calls of VsCompiler::compile
  client          \* the state of octo_client

\* The state of a run of xgConsole.
run_vars == << args, graph, process_limit, pc, ret, exit_status, completed, count,
               todo, tasks, tx_open, mutex, wpc, wtask, results, outcome,
               sent, started, received, first_failed, dropped >>

\* The state of the functions and components checked on their own.
unit_vars == << op_in, op_out, cache, compiles, client >>

vars == << run_vars, unit_vars >>

Pending == <<"pending">>
NoCall == <<"none">>
Done(v) == <<"done", v>>

\* No function is under check: the state of unit_vars during a run.
CallIdle ==
  /\ op_in = NoCall
  /\ op_out = NoCall

CacheIdle ==
  /\ cache = {}
  /\ compiles = <<>>

ClientIdle == client = [pc |-> "idle"]

UnitIdle == CallIdle /\ CacheIdle /\ ClientIdle

Free == -1
NoTask == -1
NoMessage == [index |-> NoTask, result |-> Unset]

Workers == DOMAIN wpc

Init ==
  /\ UnitIdle
  /\ args \in ArgSamples
  /\ graph \in Graphs
  /\ process_limit \in 0..MaxWorkers
  \* without a manifest file nothing is parsed and no thread is created
  /\ (files_of(args) = <<>> => graph = [n |-> 0, edges |-> <<>>] /\ process_limit = 0)
  /\ pc = "main"
  /\ ret = NoReturn
  /\ exit_status = -1
  /\ completed = {}
  /\ count = 0
  /\ todo = <<>>
  /\ tasks = <<>>
  /\ tx_open = TRUE
  /\ mutex = Free
  /\ wpc = <<>>
  /\ wtask = <<>>
  /\ results = <<>>
  /\ outcome = [x \in Nodes(graph) |-> Unset]
  /\ sent = <<>>
  /\ started = <<>>
  /\ received = [x \in Nodes(graph) |-> 0]
  /\ first_failed = NoMessage
  /\ dropped = <<>>

worker_ids_inclusive(num_cpus) == 0 .. num_cpus

\* create_threads: for cpu_id in 0..num_cpus, one thread each.
worker_ids(num_cpus) == 0 .. (num_cpus - 1)

\* ------------------------------------------------------------ main thread
\* execute up to the call of execute_graph: select the manifest files,
\* parse them, validate the graph, create the worker threads.
Execute ==
  /\ pc = "main"
  /\ IF files_of(args) = <<>>
     THEN /\ ret' = Err("Build task files not found")
          /\ pc' = "returned"
          /\ UNCHANGED << wpc, wtask, todo >>
     ELSE IF ~validate_graph(graph)
     THEN /\ ret' = Err("Found cycles in build dependencies")
          /\ pc' = "returned"
          /\ UNCHANGED << wpc, wtask, todo >>
     ELSE /\ wpc' = [w \in worker_ids(process_limit) |-> "lock"]
          /\ wtask' = [w \in worker_ids(process_limit) |-> NoTask]
          /\ todo' = initial_nodes(graph)
          /\ pc' = "externals"
          /\ UNCHANGED ret
  /\ UNCHANGED << args, graph, process_limit, exit_status, completed, count, tasks,
                  tx_open, mutex, results, outcome, sent, started, received,
                  first_failed, dropped >>
  /\ UNCHANGED unit_vars

\* execute_until_failed returns v: tx_task, which it owns, is dropped.
Return(v) ==
  /\ ret' = v
  /\ tx_open' = FALSE
  /\ pc' = "cleanup"

EndOfStep_first(cnt) == Return(OkSome(0))

\* The end of the body of `for message in rx_result.iter()`.
EndOfStep(cnt) ==
  IF cnt = graph.n
  THEN Return(OkSome(0))
  ELSE /\ pc' = "recv"
       /\ UNCHANGED << ret, tx_open >>

\* execute_until_failed, first loop: one tx_task.send per external node.
SendExternal ==
  /\ pc = "externals"
  /\ IF todo = <<>>
     THEN /\ pc' = "recv"
          /\ UNCHANGED << todo, tasks, sent >>
     ELSE /\ tasks' = Append(tasks, Head(todo))
          /\ sent' = Append(sent, Head(todo))
          /\ todo' = Tail(todo)
          /\ pc' = IF Tail(todo) = <<>> THEN "recv" ELSE "externals"
  /\ UNCHANGED << args, graph, process_limit, ret, exit_status, completed, count,
                  tx_open, mutex, wpc, wtask, results, outcome, started, received,
                  first_failed, dropped >>
  /\ UNCHANGED unit_vars

stops_on_error_only(r) == is_err(r)

\* A result that ends execute_until_failed: try!(message.result) or
\* !result.success().
stops(r) == is_err(r) \/ ~success(r)

ready_sources_unchecked(g, done, index) == neighbors_directed(g, index, "Incoming")

\* The sources the inner for loop sends for a completed node.
ready_sources(g, done, index) ==
  SelectSeq(neighbors_directed(g, index, "Incoming"), LAMBDA s : is_ready(g, done, s))

\* execute_until_failed, one message of rx_result up to the first send of
\* the inner loop.
Receive ==
  /\ pc = "recv"
  /\ results # <<>>
  /\ LET message == Head(results)
     IN  /\ results' = Tail(results)
         /\ IF message.index \in completed
            THEN \* assert!(!completed[message.index.index()])
                 /\ pc' = "panicked"
                 /\ UNCHANGED << ret, completed, count, todo, tx_open, received,
                                 first_failed >>
            ELSE /\ count' = count + 1
                 /\ received' = [received EXCEPT ![message.index] = @ + 1]
                 /\ first_failed' = IF first_failed = NoMessage /\ ~success(message.result)
                                    THEN message ELSE first_failed
                 /\ IF stops(message.result)
                    THEN /\ Return(IF is_err(message.result) THEN message.result
                                   ELSE status(message.result))
                         /\ UNCHANGED << completed, todo >>
                    ELSE /\ completed' = completed \cup {message.index}
                         /\ todo' = ready_sources(graph, completed', message.index)
                         /\ IF todo' = <<>>
                            THEN EndOfStep(count')
                            ELSE /\ pc' = "send"
                                 /\ UNCHANGED << ret, tx_open >>
  /\ UNCHANGED << args, graph, process_limit, exit_status, tasks, mutex, wpc, wtask,
                  outcome, sent, started, dropped >>
  /\ UNCHANGED unit_vars

\* execute_until_failed, inner loop: one tx_task.send, and after the last
\* one the test of count.
SendReady ==
  /\ pc = "send"
  /\ tasks' = Append(tasks, Head(todo))
  /\ sent' = Append(sent, Head(todo))
  /\ todo' = Tail(todo)
  /\ IF Tail(todo) = <<>>
     THEN EndOfStep(count)
     ELSE UNCHANGED << pc, ret, tx_open >>
  /\ UNCHANGED << args, graph, process_limit, exit_status, completed, count, mutex,
                  wpc, wtask, results, outcome, started, received, first_failed,
                  dropped >>
  /\ UNCHANGED unit_vars

\* rx_result.iter() ends in execute_until_failed: every Sender<ResultMessage>
\* is gone, panic!("Unexpected end of result pipe").
EndOfPipe ==
  /\ pc = "recv"
  /\ results = <<>>
  /\ \A w \in Workers : wpc[w] = "exited"
  /\ pc' = "panicked"
  /\ UNCHANGED << args, graph, process_limit, ret, exit_status, completed, count,
                  todo, tasks, tx_open, mutex, wpc, wtask, results, outcome, sent,
                  started, received, first_failed, dropped >>
  /\ UNCHANGED unit_vars

\* execute_graph: for _ in mutex_rx_task.lock().unwrap().iter() {}
\* The lock is taken, the intake emptied (tx_task is gone, so iter ends at
\* the first empty read) and the lock released.
CleanupQueue ==
  /\ pc = "cleanup"
  /\ mutex = Free
  /\ dropped' = dropped \o tasks
  /\ tasks' = <<>>
  /\ pc' = "drain"
  /\ UNCHANGED << args, graph, process_limit, ret, exit_status, completed, count,
                  todo, tx_open, mutex, wpc, wtask, results, outcome, sent, started,
                  received, first_failed >>
  /\ UNCHANGED unit_vars

drain_result_last(r, message) ==
  IF is_err(message.result) THEN message.result
  ELSE IF ~success(message.result) THEN status(message.result)
  ELSE r

\* The value execute_graph returns after one more message of the drain:
\* the result of execute_until_failed, untouched.
drain_result(r, message) == r

drain_done_early == results = <<>>

\* rx_result.iter() of execute_graph ends: no message and no sender left.
drain_done == results = <<>> /\ \A w \in Workers : wpc[w] = "exited"

\* execute_graph: for message in rx_result.iter() { print_task_result },
\* then execute returns the result.
DrainResults ==
  /\ pc = "drain"
  /\ IF results # <<>>
     THEN /\ count' = count + 1
          /\ received' = [received EXCEPT ![Head(results).index] = @ + 1]
          /\ results' = Tail(results)
          /\ ret' = drain_result(ret, Head(results))
          /\ UNCHANGED pc
     ELSE /\ drain_done
          /\ pc' = "returned"
          /\ UNCHANGED << ret, count, received, results >>
  /\ UNCHANGED << args, graph, process_limit, exit_status, completed, todo,
                  tasks, tx_open, mutex, wpc, wtask, outcome, sent, started,
                  first_failed, dropped >>
  /\ UNCHANGED unit_vars

\* main: process::exit(match execute(..)).
Exit ==
  /\ pc = "returned"
  /\ exit_status' = exit_code(ret)
  /\ pc' = "exited"
  /\ UNCHANGED << args, graph, process_limit, ret, completed, count, todo, tasks,
                  tx_open, mutex, wpc, wtask, results, outcome, sent, started,
                  received, first_failed, dropped >>
  /\ UNCHANGED unit_vars

\* --------------------------------------------------------- worker threads
Alive == pc \notin {"panicked", "exited"}

\* local_rx_task.lock()
WorkerLock(w) ==
  /\ Alive
  /\ wpc[w] = "lock"
  /\ mutex = Free
  /\ mutex' = w
  /\ wpc' = [wpc EXCEPT ![w] = "recv"]
  /\ UNCHANGED << args, graph, process_limit, pc, ret, exit_status, completed, count,
                  todo, tasks, tx_open, wtask, results, outcome, sent, started,
                  received, first_failed, dropped >>
  /\ UNCHANGED unit_vars

\* .recv() under the lock: a task, or Err once the channel is empty and
\* hung up; the guard is released at the end of the match.
WorkerRecv(w) ==
  /\ Alive
  /\ wpc[w] = "recv"
  /\ mutex = w
  /\ IF tasks # <<>>
     THEN /\ wtask' = [wtask EXCEPT ![w] = Head(tasks)]
          /\ started' = Append(started, Head(tasks))
          /\ tasks' = Tail(tasks)
          /\ wpc' = [wpc EXCEPT ![w] = "exec"]
     ELSE /\ ~tx_open
          /\ wpc' = [wpc EXCEPT ![w] = "exited"]
          /\ UNCHANGED << wtask, started, tasks >>
  /\ mutex' = Free
  /\ UNCHANGED << args, graph, process_limit, pc, ret, exit_status, completed, count,
                  todo, tx_open, results, outcome, sent, received, first_failed,
                  dropped >>
  /\ UNCHANGED unit_vars

\* local_tx_result.send(worker(task)): the task runs and its result is
\* queued for the scheduler.
WorkerExec(w) ==
  /\ Alive
  /\ wpc[w] = "exec"
  /\ \E r \in TaskResults :
        /\ outcome[wtask[w]] \in {Unset, r}
        /\ outcome' = [outcome EXCEPT ![wtask[w]] = r]
        /\ results' = Append(results, [index |-> wtask[w], result |-> r])
  /\ wtask' = [wtask EXCEPT ![w] = NoTask]
  /\ wpc' = [wpc EXCEPT ![w] = "lock"]
  /\ UNCHANGED << args, graph, process_limit, pc, ret, exit_status, completed, count,
                  todo, tasks, tx_open, mutex, sent, started, received,
                  first_failed, dropped >>
  /\ UNCHANGED unit_vars

Next ==
  \/ Execute
  \/ SendExternal
  \/ Receive
  \/ SendReady
  \/ EndOfPipe
  \/ CleanupQueue
  \/ DrainResults
  \/ Exit
  \/ \E w \in Workers : WorkerLock(w)
  \/ \E w \in Workers : WorkerRecv(w)
  \/ \E w \in Workers : WorkerExec(w)

Spec == Init /\ [][Next]_vars

\* ================================================================ claims
\* Vocabulary of the claims, defined without the scheduler's own tests.
Files == files_of(args)

Returned == pc \in {"returned", "exited"}

DependsOn(g, x) == { e[2] : e \in { d \in Range(g.edges) : d[1] = x } }

RECURSIVE Closure(_, _, _)
Closure(g, S, k) ==
  IF k = 0 THEN S
  ELSE Closure(g, S \cup UNION { DependsOn(g, x) : x \in S }, k - 1)

\* Some node depends, directly or not, on itself.
HasCycle(g) ==
  \E a \in Nodes(g) : a \in Closure(g, DependsOn(g, a), g.n)

\* The result of node x has been received and is exit status 0.
Succeeded(x) == received[x] >= 1 /\ outcome[x] = Exited(0)

\* Every task that has run so far exited with status 0.
AllExitZero == \A x \in Nodes(graph) : outcome[x] \in {Unset, Exited(0)}

\* C1: on an acyclic graph with at least one node whose tasks all exit 0,
\* with process_limit >= 1, every node is dispatched exactly once, exactly
\* one result per node is received, and the value returned is Ok(Some(0)).
C1_EveryNodeOnce ==
  (Files # <<>> /\ graph.n >= 1 /\ ~HasCycle(graph) /\ process_limit >= 1 /\ AllExitZero)
  => /\ pc # "panicked"
     /\ \A x \in Nodes(graph) : Occurrences(sent, x) <= 1 /\ received[x] <= 1
     /\ Returned => /\ ret = OkSome(0)
                    /\ \A x \in Nodes(graph) : Occurrences(sent, x) = 1 /\ received[x] = 1

C3_DependencyOrder ==
  \A i \in DOMAIN sent : \A d \in DependsOn(graph, sent[i]) : Succeeded(d)

C3_Witness ==
  \E i \in DOMAIN sent : Cardinality(DependsOn(graph, sent[i])) >= 2

\* C4: once the first failed result has been received, no step sends a task
\* to the intake.
C4_NoSendAfterFailure ==
  [][first_failed # NoMessage => sent' = sent /\ Len(tasks') <= Len(tasks)]_vars

\* A failure has been received, and a node that was never sent has all its
\* dependencies completed successfully.
C4_Witness ==
  /\ first_failed # NoMessage
  /\ pc = "returned"
  /\ \E x \in Nodes(graph) \ Range(sent) :
        /\ DependsOn(graph, x) # {}
        /\ \A d \in DependsOn(graph, x) : Succeeded(d)

\* C5: when the first failed result the scheduler received is a non-zero
\* exit status c, the value returned is Ok(Some(c)), whatever failed
\* results arrive later in the drain.
C5_FirstFailureCode ==
  (first_failed # NoMessage /\ first_failed.result \in { Exited(c) : c \in ExitStatuses })
  => ret = first_failed.result

\* Returned after a first failure with status 2 and a later failed result,
\* with status 3, received in the drain.
C5_Witness ==
  /\ pc = "returned"
  /\ first_failed # NoMessage
  /\ first_failed.result = Exited(2)
  /\ \E x \in Nodes(graph) : /\ x # first_failed.index
                             /\ received[x] >= 1
                             /\ outcome[x] = Exited(3)

\* C6: for a graph with a cycle, execute returns the error of
\* validate_graph; no worker thread exists, nothing is sent to the intake
\* and no task is started.
C6_CycleRejected ==
  (Files # <<>> /\ HasCycle(graph) /\ pc # "main")
  => /\ Returned
     /\ ret = Err("Found cycles in build dependencies")
     /\ Workers = {}
     /\ sent = <<>>
     /\ tasks = <<>>
     /\ started = <<>>

\* A rejected cycle of two or more nodes, with workers configured.
C6_Witness ==
  /\ pc = "returned"
  /\ HasCycle(graph)
  /\ \A e \in Range(graph.edges) : e[1] # e[2]
  /\ process_limit >= 1

C8_NoStartAfterFailure ==
  [][first_failed # NoMessage => started' = started]_vars

\* C9: the graph A -> B -> C (A = 0 depends on B = 1, B depends on C = 2),
\* B exits 2, the others exit 0.
AbortScenario ==
  /\ Files # <<>>
  /\ graph.n = 3
  /\ Len(graph.edges) = 2
  /\ Range(graph.edges) = { <<0, 1>>, <<1, 2>> }
  /\ outcome[0] \in {Unset, Exited(0)}
  /\ outcome[1] \in {Unset, Exited(2)}
  /\ outcome[2] \in {Unset, Exited(0)}

\* C9 as stated: Ok(Some(2)) is returned and C is never dispatched.
C9_Original ==
  AbortScenario => /\ 2 \notin Range(sent)
                   /\ Returned => ret = OkSome(2)

\* C9 amended: C, on which B depends, is dispatched first and once, then B;
\* Ok(Some(2)) is returned and A is never dispatched.
C9_AbortScenario ==
  AbortScenario => /\ 0 \notin Range(sent)
                   /\ sent \in { <<>>, <<2>>, <<2, 1>> }
                   /\ Returned => ret = OkSome(2) /\ sent = <<2, 1>>

C9_Witness ==
  /\ AbortScenario
  /\ pc = "returned"
  /\ outcome[1] = Exited(2)

RunIdle ==
  /\ args = <<>>
  /\ graph = [n |-> 0, edges |-> <<>>]
  /\ process_limit = 0
  /\ pc = "idle"
  /\ ret = NoReturn
  /\ exit_status = -1
  /\ completed = {}
  /\ count = 0
  /\ todo = <<>>
  /\ tasks = <<>>
  /\ tx_open = TRUE
  /\ mutex = Free
  /\ wpc = <<>>
  /\ wtask = <<>>
  /\ results = <<>>
  /\ outcome = <<>>
  /\ sent = <<>>
  /\ started = <<>>
  /\ received = <<>>
  /\ first_failed = NoMessage
  /\ dropped = <<>>

\* Strings are sequences of one-character strings.
StringsOver(alphabet, maxlen) == UNION { [1..m -> alphabet] : m \in 0..maxlen }

\* ------------------------------------------------------------ expand_arg
MaxArgLen == 5

NotFound == -1

\* str::find: the byte offset (from 0) of the first match of pat in s.
find(s, pat) ==
  LET hits == { i \in 0..(Len(s) - Len(pat)) : SubSeq(s, i + 1, i + Len(pat)) = pat }
  IN  IF hits = {} THEN NotFound
      ELSE CHOOSE i \in hits : \A j \in hits : i <= j

\* The slice s[from..to] of Rust (offsets from 0, to excluded).
slice(s, from, to) == SubSeq(s, from + 1, to)

\* resolver(name): Some(value) or None.
resolve(rho, name) == IF name \in DOMAIN rho THEN <<"Some", rho[name]>> ELSE <<"None">>

\* The loop of expand_arg on (result, suffix).
RECURSIVE expand_loop(_, _, _)
expand_loop(result, suffix, rho) ==
  LET begin == find(suffix, <<"$", "(">>)
  IN  IF begin = NotFound THEN result \o suffix
      ELSE LET end == find(slice(suffix, begin, Len(suffix)), <<")">>)
           IN  IF end = NotFound THEN result \o suffix
               ELSE LET name == slice(suffix, begin + 2, begin + end)
                        value == resolve(rho, name)
                    IN  expand_loop(
                          IF value[1] = "Some"
                          THEN result \o slice(suffix, 0, begin) \o value[2]
                          ELSE result \o slice(suffix, 0, begin + end + 1),
                          slice(suffix, begin + end + 1, Len(suffix)),
                          rho)

expand_arg_twice(arg, rho) == expand_loop(<<>>, expand_loop(<<>>, arg, rho), rho)

expand_arg(arg, rho) == expand_loop(<<>>, arg, rho)

ExpandChars == {"$", "(", ")", "A"}
ExpandNames == { <<"A">>, <<"A", "A">> }
ExpandValues == { <<"B">>, <<"$", "(", "A", ")">>, <<"$", "(", "A", "A", ")">> }

\* The resolvers: each defines some of the names.
Resolvers == UNION { [D -> ExpandValues] : D \in SUBSET ExpandNames }

\* The call of test_parse_vars.
TestParseVars ==
  [arg |-> <<"A", "$", "(", "t", "e", "s", "t", ")",
             "$", "(", "i", "n", "n", "e", "r", ")",
             "$", "(", "n", "o", "n", "e", ")", "B">>,
   rho |-> (<<"t", "e", "s", "t">> :> <<"f", "o", "o">>)
           @@ (<<"i", "n", "n", "e", "r">> :> <<"$", "(", "b", "a", "r", ")">>)]

InitExpand ==
  /\ RunIdle
  /\ CacheIdle
  /\ ClientIdle
  /\ \/ op_in \in [arg : StringsOver(ExpandChars, MaxArgLen), rho : Resolvers]
     \/ op_in = TestParseVars
  /\ op_out = Pending

ExpandArg ==
  /\ op_out = Pending
  /\ op_out' = Done(expand_arg(op_in.arg, op_in.rho))
  /\ UNCHANGED << op_in, run_vars, cache, compiles, client >>

SpecExpand == InitExpand /\ [][ExpandArg]_vars

\* The references of s from position p (from 1) on: a reference starts at
\* the first "$(" that has a ")" after it and ends at the first such ")".
RefStarts(s, p) ==
  { i \in p..(Len(s) - 1) :
      /\ s[i] = "$"
      /\ s[i + 1] = "("
      /\ \E j \in (i + 2)..Len(s) : s[j] = ")" }

RefEnd(s, i) == CHOOSE j \in (i + 2)..Len(s) : s[j] = ")" /\ \A k \in (i + 2)..(j - 1) : s[k] # ")"

\* What the claim says the expansion of s from position p on is.
RECURSIVE Expansion(_, _, _)
Expansion(s, p, rho) ==
  IF RefStarts(s, p) = {} THEN SubSeq(s, p, Len(s))
  ELSE LET i == CHOOSE a \in RefStarts(s, p) : \A b \in RefStarts(s, p) : a <= b
           j == RefEnd(s, i)
           name == SubSeq(s, i + 2, j - 1)
       IN  SubSeq(s, p, i - 1)
           \o (IF name \in DOMAIN rho THEN rho[name] ELSE SubSeq(s, i, j))
           \o Expansion(s, j + 1, rho)

\* C11: expand_arg replaces every $(NAME), left to right, by the
\* resolver's value when NAME is defined and keeps it when not; the other
\* text, an unclosed "$(" included, is copied; values are not scanned again.
C11_ExpandArg ==
  op_out # Pending =>
    /\ op_out[2] = Expansion(op_in.arg, 1, op_in.rho)
    /\ (op_in = TestParseVars =>
          op_out[2] = <<"A", "f", "o", "o", "$", "(", "b", "a", "r", ")",
                        "$", "(", "n", "o", "n", "e", ")", "B">>)

\* $(A) was replaced by a value that is itself a reference to a defined
\* name, and that value is in the result as it is.
C11_Witness ==
  /\ op_out # Pending
  /\ op_in.arg = <<"$", "(", "A", ")", "A">>
  /\ DOMAIN op_in.rho = ExpandNames
  /\ op_in.rho[<<"A">>] = <<"$", "(", "A", "A", ")">>
  /\ op_out[2] = <<"$", "(", "A", "A", ")", "A">>

\* ------------------------------------------------ is_flag, expand_files
MaxFlagLen == 4

FlagChars == {"/", "W", "=", ".", "\n", "*"}

\* Path::file_name: the last component of the path, None when there is
\* none or when it is "..". Empty components and "." are skipped.
RECURSIVE components(_, _, _)
components(s, i, cur) ==
  LET done == IF cur = <<>> \/ cur = <<".">> THEN <<>> ELSE <<cur>>
  IN  IF i > Len(s) THEN done
      ELSE IF s[i] = "/" THEN done \o components(s, i + 1, <<>>)
      ELSE components(s, i + 1, Append(cur, s[i]))

file_name(arg) ==
  LET cs == components(arg, 1, <<>>)
  IN  IF cs = <<>> \/ cs[Len(cs)] = <<".", ".">> THEN <<"None">>
      ELSE <<"Some", cs[Len(cs)]>>

\* mask.contains(|c| c == '?' || c == '*')
is_mask(name) == \E i \in DOMAIN name : name[i] \in {"?", "*"}

\* expand_files of the unix build.
expand_files_unix(files, arg) == Append(files, arg)

\* expand_files of the windows build; found is what find_files returns
\* for the mask, <<>> standing for an error or an empty list.
expand_files_windows(files, arg, found) ==
  LET mask == file_name(arg)
  IN  IF mask[1] = "Some" /\ is_mask(mask[2]) /\ found # <<>>
      THEN files \o found
      ELSE Append(files, arg)

expand_files(files, arg, platform, found) ==
  IF platform = "windows" THEN expand_files_windows(files, arg, found)
  ELSE expand_files_unix(files, arg)

\* args.iter().filter(|a| !is_flag(a)).fold(Vec::new(), expand_files)
RECURSIVE select_files(_, _, _, _)
select_files(files, a, platform, found) ==
  IF a = <<>> THEN files
  ELSE select_files(IF is_flag(Head(a)) THEN files
                    ELSE expand_files(files, Head(a), platform, found),
                    Tail(a), platform, found)

FoundSamples == { <<>>, << <<"W", ".", "x">>, <<"W", ".", "y">> >> }

InitFlag ==
  /\ RunIdle
  /\ CacheIdle
  /\ ClientIdle
  /\ \E a \in StringsOver(FlagChars, MaxFlagLen) :
     \E rest \in { <<>>, << <<"/", "W">> >>, << <<"a", ".", "x">> >> } :
     \E platform \in {"unix", "windows"} :
     \E found \in FoundSamples :
        op_in = [args |-> <<a>> \o rest, platform |-> platform, found |-> found]
  /\ op_out = Pending

\* The first statement of execute after the state is built, with the value
\* of is_flag for each argument.
SelectFiles ==
  /\ op_out = Pending
  /\ op_out' = Done([flags |-> [i \in DOMAIN op_in.args |-> is_flag(op_in.args[i])],
                     files |-> select_files(<<>>, op_in.args, op_in.platform, op_in.found)])
  /\ UNCHANGED << op_in, run_vars, cache, compiles, client >>

SpecFlag == InitFlag /\ [][SelectFiles]_vars

\* A '/', one or more word characters, then nothing or an '=' and a text
\* whose characters are all in allowed.
FlagShape(arg, allowed) ==
  /\ Len(arg) >= 2
  /\ arg[1] = "/"
  /\ \E n \in 1..(Len(arg) - 1) :
        /\ \A j \in 2..(n + 1) : arg[j] \in WordChars
        /\ \/ Len(arg) = n + 1
           \/ arg[n + 2] = "=" /\ \A j \in (n + 3)..Len(arg) : arg[j] \in allowed

\* The part of arg before its first '='.
BeforeEquals(arg) ==
  LET eqs == { i \in DOMAIN arg : arg[i] = "=" }
  IN  IF eqs = {} THEN arg
      ELSE SubSeq(arg, 1, (CHOOSE i \in eqs : \A j \in eqs : i <= j) - 1)

LooksLikePath(arg) ==
  \E i \in DOMAIN BeforeEquals(arg) :
     \/ BeforeEquals(arg)[i] = "."
     \/ i >= 2 /\ BeforeEquals(arg)[i] = "/"

NotFlags(a) == SelectSeq(a, LAMBDA x : ~FlagShape(x, FlagChars))

Contributions(arg, platform, found) ==
  {<<arg>>} \cup
  (IF platform = "windows" /\ is_mask(arg) /\ found # <<>> THEN {found} ELSE {})

RECURSIVE Selections(_, _, _)
Selections(a, platform, found) ==
  IF a = <<>> THEN { <<>> }
  ELSE IF FlagShape(Head(a), FlagChars \ {"\n"}) THEN Selections(Tail(a), platform, found)
  ELSE { c \o t : c \in Contributions(Head(a), platform, found),
                  t \in Selections(Tail(a), platform, found) }

MaxWireArgs == 2

None == <<"None">>
Some(v) == <<"Some", v>>

\* A field of a Cap'n Proto struct that holds a pointer: null until it is
\* set; a text or data of length 0 that was set is not null.
NullPtr == <<"null">>
Ptr(v) == <<"ptr", v>>
has(p) == p # NullPtr
get(p) == IF p = NullPtr THEN <<>> ELSE p[2]

\* builder.init_root::<compile_request::Builder>()
init_root ==
  [toolchain |-> NullPtr, args |-> NullPtr, preprocessed_data |-> NullPtr,
   precompiled_hash |-> NullPtr]

\* CompileRequest::write
CompileRequest_write(self, builder) ==
  LET b1 == [builder EXCEPT !.toolchain = Ptr(self.toolchain)]
      b2 == [b1 EXCEPT !.preprocessed_data = Ptr(self.preprocessed_data)]
      b3 == [b2 EXCEPT !.args = Ptr([index \in 1..Len(self.args) |-> Ptr(self.args[index])])]
  IN  IF self.precompiled_hash[1] = "Some"
      THEN [b3 EXCEPT !.precompiled_hash = Ptr(self.precompiled_hash[2])]
      ELSE b3

CompileRequest_read_nonempty(reader) ==
  [toolchain |-> get(reader.toolchain),
   args |-> [index \in 1..Len(get(reader.args)) |-> get(get(reader.args)[index])],
   preprocessed_data |-> get(reader.preprocessed_data),
   precompiled_hash |-> IF get(reader.precompiled_hash) # <<>>
                        THEN Some(get(reader.precompiled_hash)) ELSE None]

\* CompileRequest::read
CompileRequest_read(reader) ==
  [toolchain |-> get(reader.toolchain),
   args |-> [index \in 1..Len(get(reader.args)) |-> get(get(reader.args)[index])],
   preprocessed_data |-> get(reader.preprocessed_data),
   precompiled_hash |-> IF has(reader.precompiled_hash)
                        THEN Some(get(reader.precompiled_hash)) ELSE None]

WireStrings == { <<>>, <<"a">>, <<"b", "c">> }
WireBytes == { <<>>, <<0>>, <<255, 0>> }

CompileRequests ==
  [toolchain : WireStrings,
   args : UNION { [1..m -> WireStrings] : m \in 0..MaxWireArgs },
   preprocessed_data : WireBytes,
   precompiled_hash : {None} \cup { Some(h) : h \in WireStrings }]

InitWire ==
  /\ RunIdle
  /\ CacheIdle
  /\ ClientIdle
  /\ op_in \in CompileRequests
  /\ op_out = Pending

WireWrite ==
  /\ op_out = Pending
  /\ op_out' = <<"written", CompileRequest_write(op_in, init_root)>>
  /\ UNCHANGED << op_in, run_vars, cache, compiles, client >>

WireRead ==
  /\ op_out[1] = "written"
  /\ op_out' = Done(CompileRequest_read(op_out[2]))
  /\ UNCHANGED << op_in, run_vars, cache, compiles, client >>

NextWire == WireWrite \/ WireRead

SpecWire == InitWire /\ [][NextWire]_vars

MaxVsArgs == 2

Scopes == {"Preprocessor", "Compiler", "Shared", "Ignore"}

\* The records of Arg, with names and values that tell them apart.
ArgRecords ==
  [kind : {"Flag"}, scope : Scopes, flag : { <<"a">>, <<"b">> }]
  \cup [kind : {"Param"}, scope : Scopes, flag : { <<"D">> }, value : { <<"x">>, <<"y">> }]
  \cup [kind : {"Input", "Output"}, file : { <<"f">> }]

\* utils::filter, given the value the closure yields for each item: the
\* values that are Some, in the order of the items.
filter(yielded) ==
  LET R[i \in 0..Len(yielded)] ==
        IF i = 0 THEN <<>>
        ELSE R[i-1] \o (IF yielded[i][1] = "Some" THEN <<yielded[i][2]>> ELSE <<>>)
  IN  R[Len(yielded)]

\* The text of a forwarded record.
flag_text(arg) ==
  IF arg.kind = "Flag" THEN <<"/">> \o arg.flag ELSE <<"/">> \o arg.flag \o arg.value

preprocess_arg_all_scopes(arg) ==
  IF arg.kind \in {"Flag", "Param"}
  THEN (IF arg.scope \in {"Preprocessor", "Compiler", "Shared"} THEN Some(flag_text(arg)) ELSE None)
  ELSE None

\* The closure of the filter call of VsCompiler::preprocess.
preprocess_arg(arg) ==
  IF arg.kind \in {"Flag", "Param"}
  THEN (IF arg.scope \in {"Preprocessor", "Shared"} THEN Some(flag_text(arg)) ELSE None)
  ELSE None

\* The closure of the filter call of VsCompiler::compile.
compile_arg(arg) ==
  IF arg.kind \in {"Flag", "Param"}
  THEN (IF arg.scope \in {"Preprocessor", "Compiler", "Shared"} THEN Some(flag_text(arg)) ELSE None)
  ELSE None

InitVs ==
  /\ RunIdle
  /\ CacheIdle
  /\ ClientIdle
  /\ op_in \in UNION { [1..m -> ArgRecords] : m \in 0..MaxVsArgs }
  /\ op_out = Pending

\* The two filter calls on task.args.
VsFilter ==
  /\ op_out = Pending
  /\ op_out' = Done(
       [preprocess |-> filter([i \in 1..Len(op_in) |-> preprocess_arg(op_in[i])]),
        compile |-> filter([i \in 1..Len(op_in) |-> compile_arg(op_in[i])])])
  /\ UNCHANGED << op_in, run_vars, cache, compiles, client >>

SpecVs == InitVs /\ [][VsFilter]_vars

\* The records of s that are a Flag or a Param of one of the scopes.
Scoped(s, scopes) ==
  SelectSeq(s, LAMBDA a : a.kind \in {"Flag", "Param"} /\ a.scope \in scopes)

\* The texts of the forwarded records, "/" flag and "/" flag value.
Texts(s) ==
  [i \in DOMAIN s |-> IF s[i].kind = "Flag" THEN <<"/">> \o s[i].flag
                      ELSE <<"/">> \o s[i].flag \o s[i].value]

\* C14: preprocess forwards, in their order, exactly the Flag and Param
\* records of scope Preprocessor or Shared, compile those of scope
\* Preprocessor, Compiler or Shared; Ignore, Input and Output never.
C14_ForwardedArgs ==
  op_out # Pending =>
    /\ op_out[2].preprocess = Texts(Scoped(op_in, {"Preprocessor", "Shared"}))
    /\ op_out[2].compile = Texts(Scoped(op_in, {"Preprocessor", "Compiler", "Shared"}))

\* A Compiler flag before a Shared parameter: compile forwards both in
\* that order, preprocess only the parameter.
C14_Witness ==
  /\ op_out # Pending
  /\ Len(op_in) = 2
  /\ op_in[1] = [kind |-> "Flag", scope |-> "Compiler", flag |-> <<"a">>]
  /\ op_in[2] = [kind |-> "Param", scope |-> "Shared", flag |-> <<"D">>, value |-> <<"x">>]
  /\ op_out[2].preprocess = << <<"/", "D", "x">> >>
  /\ op_out[2].compile = << <<"/", "a">>, <<"/", "D", "x">> >>

\* ------------------------------------------- VsCompiler::compile and cache
MaxCompiles == 3

VsContents == {"int a;", "int b;"}
VsLanguages == {"C", "P"}

\* What Command::output yields for cl.exe: the process could not be started,
\* or it ran and exited with a status.
SpawnFailed == Err("cl.exe")
Output(code) == <<"Ok", "Output", code>>
ProcessOutputs == {SpawnFailed, Output(0), Output(2)}
OkUnit == <<"Ok", "()">>

\* hash_sha1(content) + join(args): the fingerprint is determined by the
\* preprocessed content and the arguments, of which /T<language> varies here.
hash_params(content, language) == << content, "/T" \o language >>

\* The closure given to run_cached: try! returns the error of
\* Command::output; after that the two streams are printed and the closure
\* ends with Ok(()), the exit status of the output is not looked at.
produce(output) == IF is_err(output) THEN output ELSE OkUnit

\* Cache::run_cached: a hit returns without the worker; otherwise the worker
\* runs and what it produced is stored unless it reported an error.
run_cached(stored, hash, worker_result) ==
  IF hash \in stored
    THEN [ran |-> FALSE, stored |-> stored, result |-> OkUnit]
    ELSE [ran |-> TRUE,
          stored |-> IF is_err(worker_result) THEN stored
                     ELSE stored \cup {hash},
          result |-> worker_result]

InitCache ==
  /\ RunIdle
  /\ CallIdle
  /\ ClientIdle
  /\ cache = {}
  /\ compiles = <<>>

\* One call of VsCompiler::compile; output is what cl.exe does if it is run.
VsCompile ==
  /\ Len(compiles) < MaxCompiles
  /\ \E content \in VsContents, language \in VsLanguages,
        output \in ProcessOutputs :
       LET hash == hash_params(content, language)
           r == run_cached(cache, hash, produce(output))
       IN /\ cache' = r.stored
          /\ compiles' = Append(compiles,
               [hash |-> hash,
                ran |-> r.ran,
                output |-> IF r.ran THEN output ELSE NoReturn,
                result |-> r.result])
  /\ UNCHANGED << run_vars, op_in, op_out, client >>

SpecCache == InitCache /\ [][VsCompile]_vars

\* C15: when the compiler run by VsCompiler::compile exits with a status
\* other than 0, compile reports a failure and stores nothing, so the next
\* compile with the same fingerprint runs the compiler again.
C15_InsertOnlyOnSuccess ==
  \A i \in 1..Len(compiles) :
    (compiles[i].ran /\ compiles[i].output \in {Output(2)}) =>
      /\ is_err(compiles[i].result)
      /\ \A j \in (i+1)..Len(compiles) :
           (compiles[j].hash = compiles[i].hash
              /\ \A k \in (i+1)..(j-1) : compiles[k].hash # compiles[i].hash)
             => compiles[j].ran

\* ------------------------------------------------------------- octo_client
MaxBuilders == 2

\* BuilderInfo, reduced to the number of its toolchains.
BuilderInfos == [toolchains : 0..1]
BuilderLists == UNION { [1..m -> BuilderInfos] : m \in 0..MaxBuilders }

\* What the builder sends back once the two requests are written.
Replies == {"Success", "Error", "broken"}

InitClient ==
  /\ RunIdle
  /\ CallIdle
  /\ CacheIdle
  /\ \E list \in BuilderLists, coordinator \in {"up", "down"},
        link \in {"up", "refused"}, reply \in Replies :
       client = [pc |-> "start", all_builders |-> list,
                 coordinator |-> coordinator, link |-> link,
                 reply |-> reply, builders |-> <<>>, builder |-> 0,
                 failure |-> "none", compiled |-> "nowhere"]

\* client.get(..).send(): without the list the client logs and ends.
ClientGetBuilders ==
  /\ client.pc = "start"
  /\ client' = IF client.coordinator = "down"
                 THEN [client EXCEPT !.pc = "done",
                                     !.failure = "coordinator"]
                 ELSE [client EXCEPT !.pc = "choose"]
  /\ UNCHANGED << run_vars, op_in, op_out, cache, compiles >>

\* get_random_builder over the builders that have a toolchain; unwrap
\* panics when there is none.
ClientChoose ==
  /\ client.pc = "choose"
  /\ LET builders == SelectSeq(client.all_builders,
                               LAMBDA b : b.toolchains > 0)
     IN IF Len(builders) > 0
          THEN \E i \in 1..Len(builders) :
                 client' = [client EXCEPT !.pc = "connect",
                                          !.builders = builders,
                                          !.builder = i]
          ELSE client' = [client EXCEPT !.pc = "panicked",
                                        !.builders = builders,
                                        !.failure = "no builder"]
  /\ UNCHANGED << run_vars, op_in, op_out, cache, compiles >>

\* TcpStream::connect(addr).unwrap()
ClientConnect ==
  /\ client.pc = "connect"
  /\ client' = IF client.link = "refused"
                 THEN [client EXCEPT !.pc = "panicked",
                                     !.failure = "connect"]
                 ELSE [client EXCEPT !.pc = "send"]
  /\ UNCHANGED << run_vars, op_in, op_out, cache, compiles >>

\* The compile request and the source are written to the stream.
ClientSend ==
  /\ client.pc = "send"
  /\ client' = [client EXCEPT !.pc = "read"]
  /\ UNCHANGED << run_vars, op_in, op_out, cache, compiles >>

\* stream.read_to_string(..).unwrap(); info!(payload): whatever the builder
\* answered is logged, and main ends.
ClientRead ==
  /\ client.pc = "read"
  /\ client' =
       CASE client.reply = "broken" ->
              [client EXCEPT !.pc = "panicked", !.failure = "transport"]
         [] client.reply = "Error" ->
              [client EXCEPT !.pc = "done", !.failure = "Error"]
         [] OTHER ->
              [client EXCEPT !.pc = "done", !.compiled = "remote"]
  /\ UNCHANGED << run_vars, op_in, op_out, cache, compiles >>

NextClient ==
  \/ ClientGetBuilders
  \/ ClientChoose
  \/ ClientConnect
  \/ ClientSend
  \/ ClientRead

SpecClient == InitClient /\ [][NextClient]_vars

RemoteFailed == client.failure \in {"connect", "transport", "Error"}

\* C16: when the connection to the chosen builder fails or the builder
\* answers Error, the client compiles locally and the task is not aborted.
C16_RemoteFallback ==
  (client.pc # "idle" /\ RemoteFailed) =>
    /\ client.pc # "panicked"
    /\ client.compiled = "local"

\* ------------------------------------------- claims on the scheduler, cont.
NoParallelEdges(g) ==
  \A i, j \in 1..Len(g.edges) : g.edges[i] = g.edges[j] => i = j

\* The next message of execute_until_failed is for a node already marked
\* completed: assert!(!completed[..]) fails on it.
AssertFails ==
  /\ pc = "recv"
  /\ results # <<>>
  /\ Head(results).index \in completed

\* C17: on a validated graph, parallel edges included, no node is sent to
\* the intake twice, no node's task is started twice, and no result
\* arrives for a node already marked completed.
C17_NoDoubleDispatch ==
  /\ \A x \in Nodes(graph) : Occurrences(sent, x) <= 1
  /\ \A x \in Nodes(graph) : Occurrences(started, x) <= 1
  /\ ~AssertFails

\* C18: with process_limit >= 1 a run stops only after execute_graph has
\* returned (no state without a next step short of the exit of the
\* process), and once it has returned every worker has left its loop.
C18_Termination ==
  process_limit >= 1 =>
    /\ (~ENABLED Next) => pc = "exited"
    /\ Returned => \A w \in Workers : wpc[w] = "exited"

\* C19: validate_graph returns the 'cycles' error exactly for the graphs
\* that have a cycle; every graph without one, of zero nodes too, is
\* accepted.
C19_AcyclicAccepted ==
  (Files # <<>> /\ pc # "main") =>
    (ret = Err("Found cycles in build dependencies") <=> HasCycle(graph))

Executing == { w \in Workers : wpc[w] = "exec" }

\* C20: the tasks taken from the intake and not yet finished are one per
\* executing worker, and there are never more of them than process_limit.
C20_ParallelismBound ==
  /\ Cardinality(Executing) <= process_limit
  /\ \A w \in Workers : wpc[w] = "exec" <=> wtask[w] # NoTask
  /\ pc # "panicked" => Len(started) - Len(results) - count = Cardinality(Executing)

C20_Witness ==
  /\ process_limit = MaxWorkers
  /\ Cardinality(Executing) = process_limit
  /\ tasks # <<>>

\* C21: the nodes that become ready in one step of the scheduler (todo: the
\* initial batch, or the consumers unblocked by one result) are sent to the
\* intake in increasing node-index order.
C21_TieBreak ==
  \A i, j \in DOMAIN todo : i < j => todo[i] <= todo[j]

IsPrefix(s, t) == Len(s) <= Len(t) /\ \A i \in DOMAIN s : s[i] = t[i]

\* What one worker executes when every task succeeds: the intake is a
\* queue, each executed node appends its ready consumers, and the walk ends
\* with the queue or at a node that is taken a second time.
RECURSIVE SerialFrom(_, _, _, _)
SerialFrom(g, queue, i, done) ==
  IF i > Len(queue) \/ queue[i] \in done THEN queue
  ELSE SerialFrom(g, queue \o ready_sources(g, done \cup {queue[i]}, queue[i]),
                  i + 1, done \cup {queue[i]})

SerialOrder(g) == SerialFrom(g, initial_nodes(g), 1, {})

\* With one worker: tasks start in the order they were sent, one at a time.
SerialFifo == Cardinality(Executing) <= 1 /\ IsPrefix(started, sent)

\* Every task starts after the tasks it depends on.
SerialTopological ==
  \A i \in DOMAIN started :
    DependsOn(graph, started[i]) \subseteq { started[j] : j \in 1..(i-1) }

\* The order of the sends is a function of the graph alone.
SerialSameOrder == IsPrefix(sent, SerialOrder(graph))

\* The run in which the scheduler empties the intake right after the first
\* failed result executes nothing after the failed task; runs that execute
\* the same sequence as that one execute nothing after a failed task either.
SerialSameLength ==
  Returned => \A i \in 1..(Len(started) - 1) : success(outcome[started[i]])

\* C22: with process_limit = 1 the tasks execute one at a time in the order
\* they were sent, that order is a topological order of the dependencies,
\* and the sequence executed is the same in every run on the same graph
\* with the same task outcomes.
C22_SerialExecution ==
  process_limit = 1 =>
    /\ SerialFifo
    /\ SerialTopological
    /\ SerialSameOrder
    /\ SerialSameLength

\* A fan-out graph: one root with one edge to each of the other nodes, the
\* leaves, and no other edge.
IsFanOut(g, root) ==
  /\ g.n >= 2
  /\ Len(g.edges) = g.n - 1
  /\ Range(g.edges) = { <<root, l>> : l \in Nodes(g) \ {root} }

FanOut(g) == \E root \in Nodes(g) : IsFanOut(g, root)

FanRoot(g) == CHOOSE root \in Nodes(g) : IsFanOut(g, root)

FanLeaves(g) == Nodes(g) \ {FanRoot(g)}

\* C23: on a fan-out graph every leaf is sent before any result is
\* processed, and the root is sent at most once, only after a result of
\* every leaf has been received, and exactly once when all leaves succeeded.
C23_FanOut ==
  FanOut(graph) =>
    /\ (\E x \in Nodes(graph) : received[x] >= 1)
         => \A l \in FanLeaves(graph) : Occurrences(sent, l) = 1
    /\ Occurrences(sent, FanRoot(graph)) <= 1
    /\ Occurrences(sent, FanRoot(graph)) = 1
         => \A l \in FanLeaves(graph) : received[l] >= 1
    /\ (Returned /\ \A l \in FanLeaves(graph) : Succeeded(l))
         => Occurrences(sent, FanRoot(graph)) = 1

\* Every leaf of a fan-out graph with MaxNodes - 1 leaves is executing.
C23_Witness ==
  /\ FanOut(graph)
  /\ graph.n = MaxNodes
  /\ process_limit >= graph.n - 1
  /\ \A l \in FanLeaves(graph) : \E w \in Workers : wpc[w] = "exec" /\ wtask[w] = l

====
